---------------------------- MODULE Spec2Model ----------------------------
(***************************************************************************)
(* The gitlab_runner and gitlab_project_enable_runner resources of the     *)
(* GitLab Terraform provider, as a state machine.                          *)
(*                                                                         *)
(* One resource instance is modelled, of either type (instances share no   *)
(* state), together with the part of the GitLab server it talks to.  Each  *)
(* lifecycle function (Create, Read, Update, Delete, Import) is one        *)
(* action; the API calls it issues are recorded, in order, in `calls`, and *)
(* the error it returns in `err` ("" is Go's nil).                         *)
(*                                                                         *)
(* Identifiers (d.Id()) are Go strings and are modelled as sequences of    *)
(* one-character strings, so that formatting and parsing are computed.     *)
(***************************************************************************)
EXTENDS Integers, Sequences, FiniteSets, TLC

VARIABLES
    resource,    \* the type of the resource instance: "runner" or "link"
    inst,        \* the instance's schema.ResourceData: its id and attributes
    srvRunners,  \* server: runner id -> runner record, for the runners that exist
    srvNext,     \* server: the id the next registered runner gets
    srvLinks,    \* server: the <<project, runner>> pairs with the runner enabled
    op,          \* the last lifecycle function run, with its input
    calls,       \* the API calls that function issued, in order
    err          \* the error that function returned ("" = nil)

vars == <<resource, inst, srvRunners, srvNext, srvLinks, op, calls, err>>

-----------------------------------------------------------------------------
(* Bounds of the model *)

\* Runner ids the server hands out: 1..MaxRunnerID.
MaxRunnerID == 3

\* The projects runner 1 is enabled on: 1..MaxProjectID.
MaxProjectID == 2

\* The project and runner ids a link is created for: 0..MaxLinkID.
MaxLinkID == 11

(* Program constants *)

\* validation.IntAtLeast(10 * 60) on maximum_timeout
MinTimeout == 600

-----------------------------------------------------------------------------
(* Go strings and the strconv / fmt functions the resources use *)

Digits == <<"0", "1", "2", "3", "4", "5", "6", "7", "8", "9">>

IsDigit(c) == \E i \in 1..10 : Digits[i] = c

DigitVal(c) == (CHOOSE i \in 1..10 : Digits[i] = c) - 1

RECURSIVE FormatUint(_)
FormatUint(n) ==
    IF n < 10 THEN <<Digits[n + 1]>>
    ELSE FormatUint(n \div 10) \o <<Digits[(n % 10) + 1]>>

\* fmt.Sprintf("%d", n)
SprintfD(n) == IF n < 0 THEN <<"-">> \o FormatUint(0 - n) ELSE FormatUint(n)

RECURSIVE ParseUint(_, _)
ParseUint(s, acc) ==
    IF s = <<>> THEN acc
    ELSE ParseUint(Tail(s), 10 * acc + DigitVal(Head(s)))

\* strconv.Atoi(s): an optional sign, then one or more decimal digits.
\* (Values beyond 64 bits, which Atoi rejects, lie outside the model.)
Atoi(s) ==
    LET signed == s # <<>> /\ Head(s) \in {"+", "-"}
        body   == IF signed THEN Tail(s) ELSE s
    IN  IF body = <<>> \/ \E i \in 1..Len(body) : ~IsDigit(body[i])
        THEN [val |-> 0, err |-> "invalid syntax"]
        ELSE [val |-> IF signed /\ Head(s) = "-"
                      THEN 0 - ParseUint(body, 0) ELSE ParseUint(body, 0),
              err |-> ""]

\* The separator of a two-part id.
Sep == ":"

\* buildTwoPartID(a, b): fmt.Sprintf("%s:%s", *a, *b)
buildTwoPartID(a, b) == a \o <<Sep>> \o b

\* parseTwoPartID(id): strings.SplitN(id, ":", 2), an error unless two parts.
parseTwoPartID(id) ==
    IF \E i \in 1..Len(id) : id[i] = Sep
    THEN LET k == CHOOSE i \in 1..Len(id) :
                      id[i] = Sep /\ \A j \in 1..(i - 1) : id[j] # Sep
         IN  [a |-> SubSeq(id, 1, k - 1), b |-> SubSeq(id, k + 1, Len(id)),
              err |-> ""]
    ELSE [a |-> <<>>, b |-> <<>>, err |-> "unexpected ID format"]

\* A set of integers as the ascending list of its elements.
RECURSIVE SortedSeq(_)
SortedSeq(S) ==
    IF S = {} THEN <<>>
    ELSE LET m == CHOOSE x \in S : \A y \in S : x <= y
         IN  <<m>> \o SortedSeq(S \ {m})

-----------------------------------------------------------------------------
(* gitlab_project_enable_runner *)

\* A faulty variant: the two halves in the wrong order.
MutLinkCompositeID(projectID, runnerID) ==
    buildTwoPartID(SprintfD(runnerID), SprintfD(projectID))

\* The id Create stores: the two ids, each formatted with %d, as a two-part id.
LinkCompositeID(projectID, runnerID) ==
    buildTwoPartID(SprintfD(projectID), SprintfD(runnerID))

\* A faulty variant: the error of the runner half is not looked at.
MutProjectIDAndRunnerIDFromID(id) ==
    LET parts == parseTwoPartID(id)
        p     == Atoi(parts.a)
        r     == Atoi(parts.b)
    IN  IF parts.err # "" THEN [projectID |-> 0, runnerID |-> 0, err |-> parts.err]
        ELSE IF p.err # ""
        THEN [projectID |-> 0, runnerID |-> 0, err |-> "failed to get project"]
        ELSE [projectID |-> p.val, runnerID |-> r.val, err |-> ""]

\* projectIDAndRunnerIDFromID: split the id, parse each half as an integer.
projectIDAndRunnerIDFromID(id) ==
    LET parts == parseTwoPartID(id)
        p     == Atoi(parts.a)
        r     == Atoi(parts.b)
    IN  IF parts.err # "" THEN [projectID |-> 0, runnerID |-> 0, err |-> parts.err]
        ELSE IF p.err # ""
        THEN [projectID |-> 0, runnerID |-> 0, err |-> "failed to get project"]
        ELSE IF r.err # ""
        THEN [projectID |-> 0, runnerID |-> 0, err |-> "failed to get runner"]
        ELSE [projectID |-> p.val, runnerID |-> r.val, err |-> ""]

\* One API call as it is recorded: the endpoint, what was sent, and how it
\* ended: "ok", "not found" (the server's answer) or "error" (any other failure).
Call(api, arg, res) == [api |-> api, arg |-> arg, res |-> res]

\* How a call ends: it fails in transport, or the server answers.
Outcome(failed, known) ==
    IF failed THEN "error" ELSE IF known THEN "ok" ELSE "not found"

\* The error the API client returns for a call that ended so ("" = nil).
ErrorOf(res) ==
    IF res = "ok" THEN "" ELSE IF res = "not found" THEN "404 not found" ELSE "api"

\* Server: the runners enabled on a project, in ascending order of id.
ListProjectRunners(links, projectID) ==
    SortedSeq({ l[2] : l \in { x \in links : x[1] = projectID } })

\* A faulty variant: the id is kept when the runner is not in the list.
MutLinkRead(d, links, fail) ==
    LET dec     == projectIDAndRunnerIDFromID(d.id)
        runners == ListProjectRunners(links, dec.projectID)
        call    == Call("ListProjectRunners", <<dec.projectID>>, Outcome(fail, TRUE))
    IN  IF dec.err # "" THEN [d |-> d, calls |-> <<>>, err |-> dec.err]
        ELSE IF fail THEN [d |-> d, calls |-> <<call>>, err |-> ErrorOf(call.res)]
        ELSE [d |-> d, calls |-> <<call>>, err |-> ""]

\* Read: decode the id, list the project's runners, scan for the runner;
\* clear the id when it is not there.  `fail` says whether the API call fails.
resourceGitlabProjectEnableRunnerRead(d, links, fail) ==
    LET dec     == projectIDAndRunnerIDFromID(d.id)
        runners == ListProjectRunners(links, dec.projectID)
        call    == Call("ListProjectRunners", <<dec.projectID>>, Outcome(fail, TRUE))
    IN  IF dec.err # "" THEN [d |-> d, calls |-> <<>>, err |-> dec.err]
        ELSE IF fail THEN [d |-> d, calls |-> <<call>>, err |-> ErrorOf(call.res)]
        ELSE IF \E i \in 1..Len(runners) : runners[i] = dec.runnerID
        THEN [d |-> d, calls |-> <<call>>, err |-> ""]
        ELSE [d |-> [d EXCEPT !.id = <<>>], calls |-> <<call>>, err |-> ""]

\* A faulty variant: the id is stored before the runner is enabled.
MutLinkCreate(d, links, fail) ==
    LET call == Call("EnableProjectRunner", <<d.project_id, d.runner_id>>,
                    Outcome(fail = 1, TRUE))
        d1   == [d EXCEPT !.id = LinkCompositeID(d.project_id, d.runner_id)]
    IN  IF fail = 1
        THEN [d |-> d1, links |-> links, calls |-> <<call>>, err |-> ErrorOf(call.res)]
        ELSE LET links1 == links \cup {<<d.project_id, d.runner_id>>}
                 r      == resourceGitlabProjectEnableRunnerRead(d1, links1, fail = 2)
             IN  [d |-> r.d, links |-> links1,
                  calls |-> <<call>> \o r.calls, err |-> r.err]

\* Create: enable the runner on the project, store the composite id, Read.
\* `fail` is the position of the API call that fails (0: none does).
resourceGitlabProjectEnableRunnerCreate(d, links, fail) ==
    LET call == Call("EnableProjectRunner", <<d.project_id, d.runner_id>>,
                    Outcome(fail = 1, TRUE))
    IN  IF fail = 1
        THEN [d |-> d, links |-> links, calls |-> <<call>>, err |-> ErrorOf(call.res)]
        ELSE LET links1 == links \cup {<<d.project_id, d.runner_id>>}
                 d1     == [d EXCEPT !.id = LinkCompositeID(d.project_id, d.runner_id)]
                 r      == resourceGitlabProjectEnableRunnerRead(d1, links1, fail = 2)
             IN  [d |-> r.d, links |-> links1,
                  calls |-> <<call>> \o r.calls, err |-> r.err]

\* Delete: decode the id, disable the runner on the project (which the
\* server refuses when the runner is not enabled there).
resourceGitlabProjectEnableRunnerDelete(d, links, fail) ==
    LET dec  == projectIDAndRunnerIDFromID(d.id)
        res  == Outcome(fail, <<dec.projectID, dec.runnerID>> \in links)
        call == Call("DisableProjectRunner", <<dec.projectID, dec.runnerID>>, res)
    IN  IF dec.err # "" THEN [d |-> d, links |-> links, calls |-> <<>>, err |-> dec.err]
        ELSE IF res # "ok"
        THEN [d |-> d, links |-> links, calls |-> <<call>>, err |-> ErrorOf(res)]
        ELSE [d |-> d, links |-> links \ {<<dec.projectID, dec.runnerID>>},
              calls |-> <<call>>, err |-> ""]

-----------------------------------------------------------------------------
(* gitlab_runner: the schema *)

\* A Go string the code only copies, never inspects: one piece.
S(x) == <<x>>

\* The attributes a configuration may declare (Optional in the schema).
OptionalKeys ==
    {"access_level", "locked", "maximum_timeout", "tags", "description",
     "active", "run_untagged"}

\* Optional attributes that are also Computed: undeclared, they keep the
\* value of the prior state.
ComputedOptionalKeys ==
    {"access_level", "locked", "maximum_timeout", "active", "run_untagged"}

\* schema.ResourceData of a resource that does not exist yet: every
\* attribute at the zero value of its type, description at its Default "".
ZeroRunnerData ==
    [id |-> <<>>, registration_token |-> <<>>, token |-> <<>>, runner_id |-> 0,
     access_level |-> <<>>, revision |-> <<>>, version |-> <<>>,
     locked |-> FALSE, is_shared |-> FALSE, maximum_timeout |-> 0,
     tags |-> {}, description |-> <<>>, active |-> FALSE,
     run_untagged |-> FALSE, ip_address |-> <<>>, contacted_at |-> <<>>,
     online |-> <<>>, status |-> FALSE, architecture |-> <<>>, name |-> <<>>,
     projects |-> <<>>, groups |-> <<>>]

\* A configuration: the set of optional attributes it declares and their
\* values (the value of an undeclared attribute is not read).
Config(declared, description, run_untagged, active, locked, access_level, tags, maximum_timeout) ==
    [declared |-> declared, registration_token |-> S("abc123"),
     description |-> description, run_untagged |-> run_untagged,
     active |-> active, locked |-> locked, access_level |-> access_level,
     tags |-> tags, maximum_timeout |-> maximum_timeout]

CfgMinimal == Config({}, <<>>, FALSE, FALSE, FALSE, <<>>, {}, 0)

CfgTagged ==
    Config({"tags"}, <<>>, FALSE, FALSE, FALSE, <<>>, {"docker", "shared"}, 0)

CfgFull ==
    Config(OptionalKeys, S("ci"), TRUE, TRUE, TRUE, S("ref_protected"),
           {"docker"}, MinTimeout)

CfgZeroTimeout ==
    Config({"maximum_timeout"}, <<>>, FALSE, FALSE, FALSE, <<>>, {}, 0)

\* The configurations the model applies.
Configs == {CfgMinimal, CfgTagged, CfgFull, CfgZeroTimeout}

\* The ValidateFuncs of the schema: access_level one of the two levels
\* (whatever the case, which the model's configurations do not vary),
\* maximum_timeout at least 10 * 60.
ValidateConfig(cfg) ==
    /\ "access_level" \in cfg.declared
          => cfg.access_level \in {S("not_protected"), S("ref_protected")}
    /\ "maximum_timeout" \in cfg.declared => cfg.maximum_timeout >= MinTimeout

\* The ResourceData a lifecycle function is handed for configuration cfg
\* over prior state: a declared attribute has the configured value, an
\* undeclared Optional+Computed one the prior value, an undeclared
\* Optional one its default or zero value; Computed attributes and the id
\* are the prior ones.
ResourceDataFor(cfg, prior) ==
    [prior EXCEPT
        !.registration_token = cfg.registration_token,
        !.description  = IF "description" \in cfg.declared
                         THEN cfg.description ELSE <<>>,
        !.tags         = IF "tags" \in cfg.declared THEN cfg.tags ELSE {},
        !.access_level = IF "access_level" \in cfg.declared
                         THEN cfg.access_level ELSE prior.access_level,
        !.locked       = IF "locked" \in cfg.declared
                         THEN cfg.locked ELSE prior.locked,
        !.maximum_timeout = IF "maximum_timeout" \in cfg.declared
                         THEN cfg.maximum_timeout ELSE prior.maximum_timeout,
        !.active       = IF "active" \in cfg.declared
                         THEN cfg.active ELSE prior.active,
        !.run_untagged = IF "run_untagged" \in cfg.declared
                         THEN cfg.run_untagged ELSE prior.run_untagged]

\* d.GetOk(key): the value, and whether it is set to a non-zero value.
GetOkTags(d) == d.tags # {}

GetOkMaximumTimeout(d) == d.maximum_timeout # 0

\* Options with no optional field set.
NoFields == [k \in {} |-> TRUE]

-----------------------------------------------------------------------------
(* The GitLab server, as the resources see it through the API client *)

\* A server-generated string that depends on the runner.
Str(what, id) == <<what>> \o SprintfD(id)

\* The project summaries of a runner: the projects it is enabled on, in
\* ascending order of id.
ServerProjects(id, links) ==
    LET ps == SortedSeq({ l[1] : l \in { x \in links : x[2] = id } })
    IN  [i \in 1..Len(ps) |->
            [ID |-> ps[i], Name |-> Str("project", ps[i]),
             NameWithNamespace |-> Str("ns / project", ps[i]),
             Path |-> Str("project", ps[i]),
             PathWithNamespace |-> Str("ns/project", ps[i])]]

\* The group summaries of a runner.
ServerGroups(id) ==
    IF id % 2 = 0
    THEN <<[ID |-> id + 10, Name |-> Str("group", id),
            WebURL |-> Str("https://gitlab/groups/", id)]>>
    ELSE <<>>

\* RegisterNewRunner: a new runner record under the next id, with the
\* fields of the request and the server's defaults for the others.
RegisterNewRunner(srv, req) ==
    LET id  == srv.next
        has(k) == k \in DOMAIN req
        rec == [ID |-> id, Token |-> Str("token", id),
                Description |-> IF has("description") THEN req.description ELSE <<>>,
                Active |-> IF has("active") THEN req.active ELSE TRUE,
                Locked |-> IF has("locked") THEN req.locked ELSE FALSE,
                RunUntagged |-> IF has("run_untagged") THEN req.run_untagged ELSE TRUE,
                TagList |-> IF has("tag_list") THEN req.tag_list ELSE {},
                MaximumTimeout |-> IF has("maximum_timeout")
                                   THEN req.maximum_timeout ELSE 0,
                AccessLevel |-> S("not_protected"),
                Revision |-> Str("rev", id), Version |-> Str("13.", id),
                IsShared |-> id % 2 = 1, Online |-> Str("online", id),
                Status |-> id % 2 = 0, IPAddress |-> Str("10.0.0.", id),
                ContactedAt |-> Str("2020-01-0", id),
                Architecture |-> Str("amd64-", id), Name |-> Str("runner", id),
                Groups |-> ServerGroups(id)]
    IN  [srv EXCEPT !.runners = (id :> rec) @@ srv.runners, !.next = id + 1]

\* UpdateRunnerDetails: every field of the request overwrites the record's
\* (an empty access_level, which names no level, changes nothing).
UpdateRunnerDetails(srv, id, req) ==
    LET has(k) == k \in DOMAIN req
        old == srv.runners[id]
        rec == [old EXCEPT
                 !.Description = IF has("description") THEN req.description ELSE @,
                 !.Active = IF has("active") THEN req.active ELSE @,
                 !.Locked = IF has("locked") THEN req.locked ELSE @,
                 !.RunUntagged = IF has("run_untagged") THEN req.run_untagged ELSE @,
                 !.TagList = IF has("tag_list") THEN req.tag_list ELSE @,
                 !.MaximumTimeout = IF has("maximum_timeout")
                                    THEN req.maximum_timeout ELSE @,
                 !.AccessLevel = IF has("access_level") /\ req.access_level # <<>>
                                 THEN req.access_level ELSE @]
    IN  [srv EXCEPT !.runners = (id :> rec) @@ srv.runners]

\* GetRunnerDetails: the record, with the runner's projects.
GetRunnerDetails(srv, id) ==
    srv.runners[id] @@ [Projects |-> ServerProjects(id, srv.links)]

\* RemoveRunner: the runner is gone, and so is it from every project.
RemoveRunner(srv, id) ==
    [srv EXCEPT
        !.runners = [i \in (DOMAIN srv.runners) \ {id} |-> srv.runners[i]],
        !.links = { l \in srv.links : l[2] # id }]

\* Whether the server knows runner id.
Exists(srv, id) == id \in DOMAIN srv.runners

-----------------------------------------------------------------------------
(* gitlab_runner: the lifecycle functions *)

\* What a lifecycle function leaves behind.
Result(d, srv, cs, e) == [d |-> d, srv |-> srv, calls |-> cs, err |-> e]

\* The "projects" attribute built from v.Projects, in the same order.
ProjectsList(projects) ==
    [i \in 1..Len(projects) |->
        [id |-> projects[i].ID, name |-> projects[i].Name,
         name_with_namespace |-> projects[i].NameWithNamespace,
         path |-> projects[i].Path,
         path_with_namespace |-> projects[i].PathWithNamespace]]

\* The "groups" attribute built from v.Groups, in the same order.
GroupsList(groups) ==
    [i \in 1..Len(groups) |->
        [id |-> groups[i].ID, name |-> groups[i].Name,
         web_url |-> groups[i].WebURL]]

\* The d.Set calls of Read.  d.Set is taken to store the value it is given.
SetFromDetails(d, v) ==
    [d EXCEPT
        !.runner_id = v.ID, !.token = v.Token, !.description = v.Description,
        !.access_level = v.AccessLevel, !.revision = v.Revision,
        !.version = v.Version, !.is_shared = v.IsShared,
        !.maximum_timeout = v.MaximumTimeout, !.tags = v.TagList,
        !.locked = v.Locked, !.online = v.Online, !.status = v.Status,
        !.ip_address = v.IPAddress, !.contacted_at = v.ContactedAt,
        !.architecture = v.Architecture, !.name = v.Name,
        !.projects = ProjectsList(v.Projects),
        !.groups = GroupsList(v.Groups)]

\* Read: parse the id, fetch the runner's details, copy them into d.
\* `fail` says whether the API call fails in transport; a runner the server
\* does not know is the server's not-found error.
resourceGitlabRunnerRead(d, srv, fail) ==
    LET a    == Atoi(d.id)
        res  == Outcome(fail, Exists(srv, a.val))
        call == Call("GetRunnerDetails", <<a.val>>, res)
    IN  IF a.err # "" THEN Result(d, srv, <<>>, a.err)
        ELSE IF res # "ok" THEN Result(d, srv, <<call>>, ErrorOf(res))
        ELSE Result(SetFromDetails(d, GetRunnerDetails(srv, a.val)), srv,
                    <<call>>, "")

\* The options of UpdateRunnerDetails built from d.
UpdateOptions(d) ==
    [description |-> d.description, run_untagged |-> d.run_untagged,
     active |-> d.active, locked |-> d.locked, access_level |-> d.access_level]
    @@ (IF GetOkTags(d) THEN [tag_list |-> d.tags] ELSE NoFields)
    @@ (IF GetOkMaximumTimeout(d)
        THEN [maximum_timeout |-> d.maximum_timeout] ELSE NoFields)

\* A faulty variant: Read is called whether or not the update went through.
MutRunnerUpdate(d, srv, fail) ==
    LET a    == Atoi(d.id)
        req  == UpdateOptions(d)
        res  == Outcome(fail = 1, Exists(srv, a.val))
        call == Call("UpdateRunnerDetails", <<a.val, req>>, res)
    IN  IF a.err # "" THEN Result(d, srv, <<>>, a.err)
        ELSE LET srv1 == IF res = "ok" THEN UpdateRunnerDetails(srv, a.val, req)
                         ELSE srv
                 r    == resourceGitlabRunnerRead(d, srv1, fail = 2)
             IN  Result(r.d, srv1, <<call>> \o r.calls,
                        IF res # "ok" THEN ErrorOf(res) ELSE r.err)

\* Update: parse the id, send the options, then Read.  `fail` is the
\* position of the API call that fails in transport (0: none does).
resourceGitlabRunnerUpdate(d, srv, fail) ==
    LET a    == Atoi(d.id)
        req  == UpdateOptions(d)
        res  == Outcome(fail = 1, Exists(srv, a.val))
        call == Call("UpdateRunnerDetails", <<a.val, req>>, res)
    IN  IF a.err # "" THEN Result(d, srv, <<>>, a.err)
        ELSE IF res # "ok" THEN Result(d, srv, <<call>>, ErrorOf(res))
        ELSE LET srv1 == UpdateRunnerDetails(srv, a.val, req)
                 r    == resourceGitlabRunnerRead(d, srv1, fail = 2)
             IN  Result(r.d, srv1, <<call>> \o r.calls, r.err)

\* The options of RegisterNewRunner built from d.
RegisterOptions(d) ==
    [token |-> d.registration_token, description |-> d.description,
     run_untagged |-> d.run_untagged, active |-> d.active, locked |-> d.locked]
    @@ (IF GetOkTags(d) THEN [tag_list |-> d.tags] ELSE NoFields)
    @@ (IF GetOkMaximumTimeout(d)
        THEN [maximum_timeout |-> d.maximum_timeout] ELSE NoFields)

\* Create: register the runner, store its id, then Update (which Reads).
\* The server hands out the ids 1..MaxRunnerID and refuses after that.
resourceGitlabRunnerCreate(d, srv, fail) ==
    LET req  == RegisterOptions(d)
        res  == Outcome(fail = 1 \/ srv.next > MaxRunnerID, TRUE)
        call == Call("RegisterNewRunner", <<req>>, res)
    IN  IF res # "ok" THEN Result(d, srv, <<call>>, ErrorOf(res))
        ELSE LET srv1 == RegisterNewRunner(srv, req)
                 d1   == [d EXCEPT !.id = SprintfD(srv.next)]
                 r    == resourceGitlabRunnerUpdate(d1, srv1,
                                                    IF fail = 0 THEN 0 ELSE fail - 1)
             IN  Result(r.d, r.srv, <<call>> \o r.calls, r.err)

\* A faulty variant: a failed removal is tried twice more.
MutRunnerDelete(d, srv, fail) ==
    LET a    == Atoi(d.id)
        res  == Outcome(fail, Exists(srv, a.val))
        call == Call("RemoveRunner", <<a.val>>, res)
    IN  IF a.err # "" THEN Result(d, srv, <<>>, a.err)
        ELSE IF res # "ok" THEN Result(d, srv, <<call, call, call>>, ErrorOf(res))
        ELSE Result(d, RemoveRunner(srv, a.val), <<call>>, "")

\* Delete: parse the id, remove the runner.
resourceGitlabRunnerDelete(d, srv, fail) ==
    LET a    == Atoi(d.id)
        res  == Outcome(fail, Exists(srv, a.val))
        call == Call("RemoveRunner", <<a.val>>, res)
    IN  IF a.err # "" THEN Result(d, srv, <<>>, a.err)
        ELSE IF res # "ok" THEN Result(d, srv, <<call>>, ErrorOf(res))
        ELSE Result(d, RemoveRunner(srv, a.val), <<call>>, "")

-----------------------------------------------------------------------------
(* The state machine *)

Srv == [runners |-> srvRunners, next |-> srvNext, links |-> srvLinks]

\* ResourceData of a link that does not exist yet.
NewLinkData(projectID, runnerID) ==
    [id |-> <<>>, project_id |-> projectID, runner_id |-> runnerID]

\* The ids a link's stored state may hold when the provider is started on
\* it: none, a well-formed one, and malformed ones (no separator, a half
\* that is no integer, an empty half, a second separator).
StoredLinkIDs ==
    {<<>>, <<"1", ":", "1">>, <<"1", "2">>, <<"x", ":", "1">>,
     <<"1", ":", "x">>, <<"1", ":">>, <<"1", ":", "2", ":", "1">>}

\* The ids `terraform import` may be given for a runner.
ImportIDs == { SprintfD(i) : i \in 1..MaxRunnerID } \cup {<<"x">>}

Op(name, cfg) == [name |-> name, cfg |-> cfg]

\* The request that registered the runners the server already has.
OtherRequest ==
    [token |-> S("abc123"), description |-> S("other"), tag_list |-> {"shared"}]

\* A server on which n runners were registered by other means.
RECURSIVE ServerWith(_)
ServerWith(n) ==
    IF n = 0 THEN [runners |-> [i \in {} |-> TRUE], next |-> 1, links |-> {}]
    ELSE RegisterNewRunner(ServerWith(n - 1), OtherRequest)

\* A gitlab_runner instance not yet created or imported, on a server that
\* may have runners already, the first of them enabled on every project.
InitRunner ==
    /\ resource = "runner"
    /\ inst = ZeroRunnerData
    /\ \E n \in 0..(MaxRunnerID - 1) :
          /\ srvRunners = ServerWith(n).runners
          /\ srvNext = ServerWith(n).next
          /\ srvLinks = IF n = 0 THEN {} ELSE { <<p, 1>> : p \in 1..MaxProjectID }

\* A gitlab_project_enable_runner instance with some stored id, on a
\* server where the runner of that id may or may not be enabled.
InitLink ==
    /\ resource = "link"
    /\ \E id \in StoredLinkIDs : inst = [NewLinkData(1, 1) EXCEPT !.id = id]
    /\ srvRunners = ServerWith(0).runners
    /\ srvNext = ServerWith(0).next
    /\ srvLinks \in {{}, {<<1, 1>>}}

Init ==
    /\ InitRunner \/ InitLink
    /\ op = Op("init", CfgMinimal)
    /\ calls = <<>>
    /\ err = ""

\* What a runner lifecycle function did becomes the state.
RunnerDone(name, cfg, r) ==
    /\ inst' = r.d
    /\ srvRunners' = r.srv.runners
    /\ srvNext' = r.srv.next
    /\ srvLinks' = r.srv.links
    /\ op' = Op(name, cfg)
    /\ calls' = r.calls
    /\ err' = r.err
    /\ UNCHANGED resource

\* A configuration the schema's validation rejects reaches no lifecycle function.
Rejected(name, cfg) ==
    /\ op' = Op(name, cfg)
    /\ calls' = <<>>
    /\ err' = "validation"
    /\ UNCHANGED <<resource, inst, srvRunners, srvNext, srvLinks>>

\* Create is what the SDK calls for an instance that has no id yet, Read,
\* Update and Delete what it calls for one that has.
RunnerCreate(cfg, fail) ==
    /\ resource = "runner"
    /\ inst.id = <<>>
    /\ IF ValidateConfig(cfg)
       THEN RunnerDone("RunnerCreate", cfg,
               resourceGitlabRunnerCreate(ResourceDataFor(cfg, ZeroRunnerData),
                                          Srv, fail))
       ELSE Rejected("RunnerCreate", cfg)

RunnerRead(fail) ==
    /\ resource = "runner"
    /\ inst.id # <<>>
    /\ RunnerDone("RunnerRead", CfgMinimal, resourceGitlabRunnerRead(inst, Srv, fail))

RunnerUpdate(cfg, fail) ==
    /\ resource = "runner"
    /\ inst.id # <<>>
    /\ IF ValidateConfig(cfg)
       THEN RunnerDone("RunnerUpdate", cfg,
               resourceGitlabRunnerUpdate(ResourceDataFor(cfg, inst), Srv, fail))
       ELSE Rejected("RunnerUpdate", cfg)

RunnerDelete(fail) ==
    /\ resource = "runner"
    /\ inst.id # <<>>
    /\ RunnerDone("RunnerDelete", CfgMinimal,
                  resourceGitlabRunnerDelete(inst, Srv, fail))

\* schema.ImportStatePassthrough: a new ResourceData with the given id.
RunnerImport(id) ==
    /\ resource = "runner"
    /\ inst.id = <<>>
    /\ inst' = [ZeroRunnerData EXCEPT !.id = id]
    /\ op' = Op("RunnerImport", CfgMinimal)
    /\ calls' = <<>>
    /\ err' = ""
    /\ UNCHANGED <<resource, srvRunners, srvNext, srvLinks>>

\* What a link lifecycle function did becomes the state.
LinkDone(name, r, links) ==
    /\ inst' = r.d
    /\ srvLinks' = links
    /\ op' = Op(name, CfgMinimal)
    /\ calls' = r.calls
    /\ err' = r.err
    /\ UNCHANGED <<resource, srvRunners, srvNext>>

LinkCreate(projectID, runnerID, fail) ==
    /\ resource = "link"
    /\ inst.id = <<>>
    /\ LET r == resourceGitlabProjectEnableRunnerCreate(
                    NewLinkData(projectID, runnerID), srvLinks, fail)
       IN  LinkDone("LinkCreate", r, r.links)

LinkRead(fail) ==
    /\ resource = "link"
    /\ inst.id # <<>>
    /\ LinkDone("LinkRead",
                resourceGitlabProjectEnableRunnerRead(inst, srvLinks, fail), srvLinks)

LinkDelete(fail) ==
    /\ resource = "link"
    /\ inst.id # <<>>
    /\ LET r == resourceGitlabProjectEnableRunnerDelete(inst, srvLinks, fail)
       IN  LinkDone("LinkDelete", r, r.links)

Next ==
    \/ \E cfg \in Configs, fail \in 0..3 : RunnerCreate(cfg, fail)
    \/ \E fail \in BOOLEAN : RunnerRead(fail)
    \/ \E cfg \in Configs, fail \in 0..2 : RunnerUpdate(cfg, fail)
    \/ \E fail \in BOOLEAN : RunnerDelete(fail)
    \/ \E id \in ImportIDs : RunnerImport(id)
    \/ \E p \in 0..MaxLinkID, r \in 0..MaxLinkID, fail \in 0..2 :
          LinkCreate(p, r, fail)
    \/ \E fail \in BOOLEAN : LinkRead(fail)
    \/ \E fail \in BOOLEAN : LinkDelete(fail)

Spec == Init /\ [][Next]_vars

-----------------------------------------------------------------------------
(* Properties of gitlab_project_enable_runner *)

\* What the properties mean by an integer: an optional sign and digits.
IsDecimal(s) ==
    LET body == IF s # <<>> /\ s[1] \in {"+", "-"} THEN Tail(s) ELSE s
    IN  body # <<>> /\ \A i \in 1..Len(body) : body[i] \in
            {"0", "1", "2", "3", "4", "5", "6", "7", "8", "9"}

\* The position of the first separator of an id, 0 if it has none.
FirstSep(id) ==
    IF \E i \in 1..Len(id) : id[i] = ":"
    THEN CHOOSE i \in 1..Len(id) : id[i] = ":" /\ \A j \in 1..(i - 1) : id[j] # ":"
    ELSE 0

\* A composite id "<p>:<r>" of two integers.
WellFormed(id) ==
    /\ FirstSep(id) # 0
    /\ IsDecimal(SubSeq(id, 1, FirstSep(id) - 1))
    /\ IsDecimal(SubSeq(id, FirstSep(id) + 1, Len(id)))

\* The composite id of the pair <<p, r>>.
IdOf(p, r) == SprintfD(p) \o <<":">> \o SprintfD(r)

\* The pairs <<p, r>> of small integers a well-formed id may stand for.
PairOf(id) ==
    CHOOSE pr \in (0..(MaxLinkID + 1)) \X (0..(MaxLinkID + 1)) :
        IdOf(pr[1], pr[2]) = id

HasPair(id) ==
    \E pr \in (0..(MaxLinkID + 1)) \X (0..(MaxLinkID + 1)) : IdOf(pr[1], pr[2]) = id

\* C1: a link Read on a stored id "<p>:<r>" issues ListProjectRunners(p) and
\* nothing else; when the call succeeds Read returns no error, and the id
\* is unchanged if runner r is enabled on project p and cleared to the
\* empty string if it is not; when the call fails Read returns the error
\* and the id is unchanged.
C1_LinkReadContract ==
    [][(op'.name = "LinkRead" /\ HasPair(inst.id)) =>
         LET p == PairOf(inst.id)[1]
             r == PairOf(inst.id)[2]
         IN  /\ Len(calls') = 1
             /\ calls'[1].api = "ListProjectRunners"
             /\ calls'[1].arg = <<p>>
             /\ IF calls'[1].res = "ok"
                THEN /\ err' = ""
                     /\ inst'.id = IF <<p, r>> \in srvLinks THEN inst.id ELSE <<>>
                ELSE /\ err' # ""
                     /\ inst'.id = inst.id]_vars

\* C1 witness: a Read that found the runner gone and cleared the id.
C1_Witness ==
    /\ op.name = "LinkRead"
    /\ Len(calls) = 1 /\ calls[1].res = "ok"
    /\ err = "" /\ inst.id = <<>>

\* C2: after a link Create that succeeded for the pair (projectId, runnerId)
\* of non-negative integers, decoding the stored composite id with
\* projectIDAndRunnerIDFromID gives back that pair and no error.
C2_RoundTrip ==
    (op.name = "LinkCreate" /\ calls[1].res = "ok") =>
        projectIDAndRunnerIDFromID(inst.id)
          = [projectID |-> inst.project_id, runnerID |-> inst.runner_id, err |-> ""]

\* C2 witness: a Create for two different ids of two digits went through
\* and left the composite id stored.
C2_Witness ==
    /\ op.name = "LinkCreate" /\ err = ""
    /\ inst.project_id >= 10 /\ inst.runner_id >= 10
    /\ inst.project_id # inst.runner_id
    /\ inst.id = IdOf(inst.project_id, inst.runner_id)

\* C7: a link Read or Delete on a stored id that has no separator, or whose
\* project half or runner half is no integer, returns an error, issues no
\* API call, and leaves the stored id (and the server) as they were.
C7_MalformedId ==
    [][(op'.name \in {"LinkRead", "LinkDelete"} /\ ~WellFormed(inst.id)) =>
         /\ err' # ""
         /\ calls' = <<>>
         /\ inst' = inst
         /\ srvLinks' = srvLinks]_vars

\* C7 witness: a Delete refused an id whose runner half is no integer.
C7_Witness ==
    /\ op.name = "LinkDelete"
    /\ ~WellFormed(inst.id) /\ FirstSep(inst.id) # 0
    /\ IsDecimal(SubSeq(inst.id, 1, FirstSep(inst.id) - 1))
    /\ calls = <<>> /\ err # ""

-----------------------------------------------------------------------------
(* Properties of gitlab_runner *)

\* The server's record of the runner the instance's id names.
ServerRecord == GetRunnerDetails(Srv, Atoi(inst.id).val)

\* The attributes Read copies equal the server's record.
CopiedMatch(v) ==
    /\ inst.runner_id = v.ID /\ inst.token = v.Token
    /\ inst.description = v.Description /\ inst.access_level = v.AccessLevel
    /\ inst.locked = v.Locked /\ inst.maximum_timeout = v.MaximumTimeout
    /\ inst.tags = v.TagList /\ inst.revision = v.Revision
    /\ inst.version = v.Version /\ inst.ip_address = v.IPAddress
    /\ inst.contacted_at = v.ContactedAt /\ inst.online = v.Online
    /\ inst.status = v.Status /\ inst.architecture = v.Architecture
    /\ inst.name = v.Name /\ inst.is_shared = v.IsShared
    /\ Len(inst.projects) = Len(v.Projects)
    /\ \A i \in 1..Len(v.Projects) :
          /\ inst.projects[i].id = v.Projects[i].ID
          /\ inst.projects[i].name = v.Projects[i].Name
          /\ inst.projects[i].name_with_namespace = v.Projects[i].NameWithNamespace
          /\ inst.projects[i].path = v.Projects[i].Path
          /\ inst.projects[i].path_with_namespace = v.Projects[i].PathWithNamespace
    /\ Len(inst.groups) = Len(v.Groups)
    /\ \A i \in 1..Len(v.Groups) :
          /\ inst.groups[i].id = v.Groups[i].ID
          /\ inst.groups[i].name = v.Groups[i].Name
          /\ inst.groups[i].web_url = v.Groups[i].WebURL

\* C3: a runner Read of an id the server reports as not found clears the
\* stored id and returns no error.
C3_ReadNotFoundClears ==
    (op.name = "RunnerRead" /\ Len(calls) = 1 /\ calls[1].res = "not found") =>
        (err = "" /\ inst.id = <<>>)

\* C4: after a runner Read that returned no error, every attribute, mutable
\* or read-only, equals the value in the server's record of the runner.
C4_ReadMirrorsServer ==
    (op.name = "RunnerRead" /\ err = "") =>
        /\ CopiedMatch(ServerRecord)
        /\ inst.active = ServerRecord.Active
        /\ inst.run_untagged = ServerRecord.RunUntagged

\* The field of the register request that carries an optional attribute.
RequestField(k) == IF k = "tags" THEN "tag_list" ELSE k

\* C5: the register request of a runner Create carries an optional
\* attribute (description, run_untagged, active, locked, tags,
\* maximum_timeout) only if the configuration declares it.
C5_UndeclaredOmitted ==
    (op.name = "RunnerCreate" /\ calls # <<>>) =>
        \A k \in {"description", "run_untagged", "active", "locked", "tags",
                  "maximum_timeout"} :
            RequestField(k) \in DOMAIN calls[1].arg[1] => k \in op.cfg.declared

\* The request a runner Create or Update sent first (Create: the register
\* request, Update: the update request).
FirstRequest == calls[1].arg[Len(calls[1].arg)]

\* C6: a runner Create or Update for a configuration that supplies
\* maximum_timeout as 0 sends a request with the literal 0, and one for a
\* configuration that does not supply it sends a request without the field.
C6_ZeroTimeoutDistinct ==
    (op.name \in {"RunnerCreate", "RunnerUpdate"} /\ err # "invalid syntax") =>
        IF "maximum_timeout" \in op.cfg.declared
        THEN op.cfg.maximum_timeout = 0 =>
                /\ calls # <<>>
                /\ "maximum_timeout" \in DOMAIN FirstRequest
                /\ FirstRequest.maximum_timeout = 0
        ELSE calls # <<>> /\ "maximum_timeout" \notin DOMAIN FirstRequest

\* Whether the calls cs are the first calls of the sequence apis, each sent
\* for runner id, every call but the last one successful, and e the error
\* of the last call if it failed, and nil if the whole sequence was issued.
PrefixOf(cs, apis, id, e) ==
    /\ Len(cs) \in 1..Len(apis)
    /\ \A i \in 1..Len(cs) :
          /\ cs[i].api = apis[i]
          /\ apis[i] # "RegisterNewRunner" => cs[i].arg[1] = id
          /\ i < Len(cs) => cs[i].res = "ok"
    /\ IF cs[Len(cs)].res = "ok"
       THEN Len(cs) = Len(apis) /\ e = ""
       ELSE e = ErrorOf(cs[Len(cs)].res) /\ e # ""

\* C8: a runner Create issues RegisterNewRunner, UpdateRunnerDetails and
\* GetRunnerDetails in this order, the last two for the id the server
\* registered, and a runner Update issues UpdateRunnerDetails and
\* GetRunnerDetails for the stored id; a call that fails ends the operation
\* with its error and no later call is issued; after a failed
\* UpdateRunnerDetails no attribute differs from what the operation was handed.
C8_CallOrder ==
    [][/\ (op'.name = "RunnerCreate" /\ err' # "validation") =>
            /\ PrefixOf(calls', <<"RegisterNewRunner", "UpdateRunnerDetails",
                                  "GetRunnerDetails">>, srvNext, err')
            /\ (Len(calls') = 2 /\ calls'[2].res # "ok") =>
                  inst' = [ResourceDataFor(op'.cfg, ZeroRunnerData)
                              EXCEPT !.id = inst'.id]
       /\ (op'.name = "RunnerUpdate" /\ err' # "validation"
             /\ IsDecimal(inst.id)) =>
            /\ PrefixOf(calls', <<"UpdateRunnerDetails", "GetRunnerDetails">>,
                        Atoi(inst.id).val, err')
            /\ calls'[1].res # "ok" => inst' = ResourceDataFor(op'.cfg, inst)
      ]_vars

\* C8 witness: a Create whose UpdateRunnerDetails failed after the runner
\* was registered, and that stopped there.
C8_Witness ==
    /\ op.name = "RunnerCreate"
    /\ Len(calls) = 2 /\ calls[1].res = "ok" /\ calls[2].res # "ok"
    /\ err # ""

\* C9 as stated: every operation issues at most two API requests.
C9_AtMostTwoCalls == Len(calls) <= 2

\* C9, amended: a runner Create issues at most three API requests, every
\* other operation of either resource at most two, and no operation sends
\* a request to the same endpoint twice.
C9_CallBudget ==
    /\ Len(calls) <= IF op.name = "RunnerCreate" THEN 3 ELSE 2
    /\ \A i, j \in 1..Len(calls) : i # j => calls[i].api # calls[j].api

\* C9 witness: a runner Create that issued three requests.
C9_Witness == op.name = "RunnerCreate" /\ Len(calls) = 3 /\ err = ""

\* C10: in a Create of either resource the stored id is set exactly if the
\* first API call succeeded; if that call failed the server is unchanged;
\* if it succeeded the stored id names what the call created on the
\* server, whether or not a later call of the Create failed.
C10_CreateTracksEntity ==
    [][/\ op'.name = "RunnerCreate" =>
            IF calls' # <<>> /\ calls'[1].res = "ok"
            THEN /\ inst'.id = SprintfD(srvNext)
                 /\ srvNext \notin DOMAIN srvRunners
                 /\ srvNext \in DOMAIN srvRunners'
            ELSE /\ inst'.id = <<>>
                 /\ srvRunners' = srvRunners
       /\ op'.name = "LinkCreate" =>
            IF calls' # <<>> /\ calls'[1].res = "ok"
            THEN /\ inst'.id = IdOf(inst'.project_id, inst'.runner_id)
                 /\ <<inst'.project_id, inst'.runner_id>> \in srvLinks'
            ELSE /\ inst'.id = <<>>
                 /\ srvLinks' = srvLinks
      ]_vars

\* C10 witness: a link Create whose ListProjectRunners failed after the
\* runner was enabled, with the composite id stored all the same.
C10_Witness ==
    /\ op.name = "LinkCreate"
    /\ Len(calls) = 2 /\ calls[1].res = "ok" /\ calls[2].res # "ok"
    /\ err # "" /\ inst.id # <<>>

=============================================================================
